---- MODULE Spec2Model ----
(***************************************************************************)
(* Call manager of the WhatsApp calling demo (src/callManager.js, held in  *)
(* src/unnamed/part_000) together with the entry points of src/server.js   *)
(* that reach it.                                                          *)
(*                                                                         *)
(* The registry `calls` is a JavaScript Map: it is modelled as a sequence  *)
(* of <key, object> entries because the fallback lookups take the first    *)
(* match in insertion order.  Session objects live in `sess` and are named *)
(* by their index, so that one object stored under two keys, or held by a  *)
(* suspended handler after its key was removed, can be told apart.         *)
(* Every `await` of a handler is a scheduling point: the handler is cut    *)
(* into one action per segment and its locals are kept in `pending`.       *)
(***************************************************************************)
EXTENDS Integers, Sequences, FiniteSets, TLC

VARIABLES mode, now, ticks, events, calls, sess, permissions, timers, peers,
          pending, lastOp, out, scen

vars == <<mode, now, ticks, events, calls, sess, permissions, timers, peers,
          pending, lastOp, out, scen>>

----------------------------------------------------------------------------
(* Program constants *)

STALE_TIMEOUT == 30 * 1000

PERMISSION_TTL == 72 * 60 * 60 * 1000

RETENTION == 5 * 60 * 1000

----------------------------------------------------------------------------
(* Bounds of the model *)

MaxSessions == 2

MaxPending == 2

MaxTicks == 2

MaxEvents == 5

MaxPeers == 2

MaxWaIds == 2

Phones == {"p1"}

Sockets == {"s1"}

WaIds == 1..MaxWaIds

\* clock steps that reach a deadline exactly and miss or pass it by one millisecond
StaleDeltas == {STALE_TIMEOUT, STALE_TIMEOUT + 1}

TtlDeltas == {PERMISSION_TTL, PERMISSION_TTL + 1}

RetentionDeltas == {RETENTION - 1, RETENTION}

----------------------------------------------------------------------------
(* Values *)

NoSocket == "null"

NoObj == 0

NoPeer == 0

NoPerm == [grantedAt |-> -1, expiresAt |-> -1]

\* `call_${Date.now()}`: the provisional id is a function of the clock only
ProvisionalId(t) == [kind |-> "call", n |-> t]

\* an id assigned by the provider (result.calls[0].id, or the id a webhook carries)
WaId(i) == [kind |-> "wa", n |-> i]

NoKey == [kind |-> "none", n |-> 0]

ProviderIds == {WaId(i) : i \in WaIds}

ActiveOutbound == {"awaiting_browser_sdp", "ringing", "accepted", "connected"}

TerminalStatuses == {"rejected", "terminated", "expired", "failed", "reset"}

----------------------------------------------------------------------------
(* Map operations on calls *)

MapKeys(m) == {m[i].key : i \in 1..Len(m)}

MapHas(m, k) == \E i \in 1..Len(m) : m[i].key = k

MapGet(m, k) == IF MapHas(m, k) THEN m[CHOOSE i \in 1..Len(m) : m[i].key = k].obj ELSE NoObj

\* Map.set keeps the position of an existing key and appends a new one
MapSet(m, k, o) ==
  IF MapHas(m, k)
  THEN [i \in 1..Len(m) |-> IF m[i].key = k THEN [key |-> k, obj |-> o] ELSE m[i]]
  ELSE Append(m, [key |-> k, obj |-> o])

MapDelete(m, k) == SelectSeq(m, LAMBDA e : e.key # k)

----------------------------------------------------------------------------
(* Outputs of one handler segment *)

\* Observer of the run so far: it follows the sequence grant, initiate,
\* provider status ringing, remote answer, each handler run to its end, and
\* is "off" as soon as anything else has been delivered.
ScenNext(step) ==
  CASE scen = "start" /\ step = "grant" -> "granted"
    [] scen = "granted" /\ step = "initiate-suspended" -> "initiating"
    [] scen = "granted" /\ step = "initiate" -> "initiated"
    [] scen = "initiating" /\ step = "initiate-resumed" -> "initiating"
    [] scen = "initiating" /\ step = "initiate-done" -> "initiated"
    [] scen = "initiated" /\ step = "ringing" -> "ringing"
    [] scen = "ringing" /\ step = "answer-suspended" -> "answering"
    [] scen = "ringing" /\ step = "answer" -> "done"
    [] scen = "answering" /\ step = "answer-done" -> "done"
    [] OTHER -> "off"

\* a request, webhook delivery or signaling message enters the process
Arrive(step) ==
  /\ events < MaxEvents
  /\ events' = events + 1
  /\ scen' = ScenNext(step)

\* a suspended handler goes on
Resume(step) == scen' = ScenNext(step) /\ UNCHANGED events

\* variant: every event is broadcast
Emit_Broadcast(name, to, k) == [kind |-> "emit", name |-> name, to |-> "all", id |-> k]

Emit(name, to, k) == [kind |-> "emit", name |-> name, to |-> to, id |-> k]

Api(name, k) == [kind |-> "api", name |-> name, to |-> "provider", id |-> k]

Throw(name, k) == [kind |-> "throw", name |-> name, to |-> "caller", id |-> k]

\* the handler segment that ran last; `was` is the status a provider status
\* event found on the session it was applied to
Op(name, k, arg) == [op |-> name, key |-> k, arg |-> arg, was |-> "none"]

----------------------------------------------------------------------------
(* Permission ledger *)

\* getPermissionStatus: the verdict of a read at the current clock
PermVerdict(perm, t) ==
  IF perm = NoPerm THEN "none"
  ELSE IF t > perm.expiresAt THEN "expired"
  ELSE "granted"

\* getPermissionStatus: the ledger after the read (an expired entry is deleted)
PermAfterRead(perms, phone, t) ==
  IF PermVerdict(perms[phone], t) = "expired"
  THEN [perms EXCEPT ![phone] = NoPerm]
  ELSE perms

\* variant: one message for every refusal
PermissionError_OneMessage(verdict) == "no-permission"

\* the error startOutboundCall throws for a phone that is not granted
PermissionError(verdict) ==
  IF verdict = "expired" THEN "permission-expired" ELSE "no-permission"

getPermissionStatus(phone) ==
  /\ permissions' = PermAfterRead(permissions, phone, now)
  /\ lastOp' = Op("getPermissionStatus", NoKey, phone)
  /\ out' = <<[kind |-> "return", name |-> PermVerdict(permissions[phone], now),
               to |-> "caller", id |-> NoKey]>>
  /\ Arrive("other")
  /\ UNCHANGED <<mode, now, ticks, calls, sess, timers, peers, pending>>

\* variant: a grant does not overwrite an entry the ledger already holds
handlePermissionGranted_KeepsEntry(phone) ==
  /\ permissions' = IF permissions[phone] # NoPerm THEN permissions
                    ELSE [permissions EXCEPT
                            ![phone] = [grantedAt |-> now, expiresAt |-> now + PERMISSION_TTL]]
  /\ lastOp' = Op("handlePermissionGranted", NoKey, phone)
  /\ out' = <<Emit("permission-granted", "all", NoKey)>>
  /\ Arrive("grant")
  /\ UNCHANGED <<mode, now, ticks, calls, sess, timers, peers, pending>>

handlePermissionGranted(phone) ==
  /\ permissions' = [permissions EXCEPT
                       ![phone] = [grantedAt |-> now, expiresAt |-> now + PERMISSION_TTL]]
  /\ lastOp' = Op("handlePermissionGranted", NoKey, phone)
  /\ out' = <<Emit("permission-granted", "all", NoKey)>>
  /\ Arrive("grant")
  /\ UNCHANGED <<mode, now, ticks, calls, sess, timers, peers, pending>>

----------------------------------------------------------------------------
(* Registry cleanup *)

ClosePeer(ps, p) == IF p = NoPeer THEN ps ELSE [ps EXCEPT ![p] = IF @ < 2 THEN @ + 1 ELSE @]

\* cleanup(callId): close the peers of the session found under the key
cleanupPeers(cs, ss, ps, k) ==
  IF MapGet(cs, k) = NoObj THEN ps
  ELSE ClosePeer(ClosePeer(ps, ss[MapGet(cs, k)].whatsappPeer), ss[MapGet(cs, k)].browserPeer)

\* cleanup(callId): schedule the deletion of the key after the retention window
cleanupTimers(cs, tm, k, t) ==
  IF MapGet(cs, k) = NoObj THEN tm
  ELSE tm \cup {[key |-> k, due |-> t + RETENTION]}

\* the setTimeout callback of cleanup
PurgeTimer ==
  \E tm \in timers :
    /\ now >= tm.due
    /\ calls' = MapDelete(calls, tm.key)
    /\ timers' = timers \ {tm}
    /\ lastOp' = Op("purge", tm.key, "timer")
    /\ out' = <<>>
    /\ UNCHANGED <<mode, now, ticks, events, sess, permissions, peers, pending, scen>>

\* the clock; a timer that is due runs before the clock moves on
Tick(D) ==
  \E d \in D :
    /\ ticks < MaxTicks
    /\ \A tm \in timers : tm.due > now
    /\ now' = now + d
    /\ ticks' = ticks + 1
    /\ lastOp' = Op("tick", NoKey, "clock")
    /\ out' = <<>>
    /\ UNCHANGED <<mode, events, calls, sess, permissions, timers, peers, pending, scen>>

----------------------------------------------------------------------------
(* Suspended handlers *)

\* the locals of a suspended handler; `was` is the status its session had
\* when the handler last suspended
Idle == [op |-> "idle", stage |-> "none", obj |-> NoObj, key |-> NoKey,
         phone |-> "none", peer |-> NoPeer, socket |-> NoSocket, was |-> "none"]

Cont(op, stage, obj, k, phone, peer, socket, was) ==
  [op |-> op, stage |-> stage, obj |-> obj, key |-> k,
   phone |-> phone, peer |-> peer, socket |-> socket, was |-> was]

FreeSlots == {i \in 1..MaxPending : pending[i] = Idle}

HasFreeSlot == FreeSlots # {}

FirstFree == CHOOSE i \in FreeSlots : \A j \in FreeSlots : i <= j

Suspend(c) == [pending EXCEPT ![FirstFree] = c]

\* ids a webhook or a signaling client may name: every key of the registry,
\* and one id the registry does not hold (all such ids are looked up alike)
UnknownIds == {w \in ProviderIds : ~MapHas(calls, w)}

EventIds ==
  MapKeys(calls) \cup {w \in UnknownIds : \A v \in UnknownIds : w.n <= v.n}

\* the provider assigns an id no session carries yet
FreshProviderIds ==
  {w \in ProviderIds : ~MapHas(calls, w) /\ \A i \in 1..Len(sess) : sess[i].callId # w}

NewSession(k, dir, phone, st, socket, wpeer, offer, t) ==
  [callId |-> k, direction |-> dir, recipientPhone |-> phone, status |-> st,
   socketId |-> socket, whatsappPeer |-> wpeer, browserPeer |-> NoPeer,
   whatsappSdpOffer |-> offer, createdAt |-> t]

----------------------------------------------------------------------------
(* startOutboundCall *)

\* variant: a session waiting for its offer is never reclaimed
IsStale_Never(s, t) == FALSE

\* s.status === 'awaiting_browser_sdp' && age > STALE_TIMEOUT
IsStale(s, t) == s.status = "awaiting_browser_sdp" /\ t - s.createdAt > STALE_TIMEOUT

RECURSIVE StaleScan(_, _, _, _, _, _)
\* the loop of startOutboundCall over the registry: stale sessions are expired
\* on the way, the first live outbound session ends the loop with a conflict
StaleScan(i, cs, ss, ps, tm, t) ==
  IF i > Len(cs) THEN [ss |-> ss, ps |-> ps, tm |-> tm, conflict |-> NoKey]
  ELSE
    LET id == cs[i].key
        s == ss[cs[i].obj]
    IN IF s.direction = "outbound" /\ s.status \in ActiveOutbound
       THEN IF IsStale(s, t)
            THEN StaleScan(i + 1, cs,
                           [ss EXCEPT ![cs[i].obj].status = "expired"],
                           cleanupPeers(cs, ss, ps, id),
                           cleanupTimers(cs, tm, id, t), t)
            ELSE [ss |-> ss, ps |-> ps, tm |-> tm, conflict |-> id]
       ELSE StaleScan(i + 1, cs, ss, ps, tm, t)

\* startOutboundCallBrowserOnly: the session is created under a provisional id
startOutboundCallBrowserOnly(phone, socket, scan) ==
  /\ Len(sess) < MaxSessions
  /\ sess' = Append(scan.ss, NewSession(ProvisionalId(now), "outbound", phone,
                                        "awaiting_browser_sdp", socket, NoPeer, "none", now))
  /\ calls' = MapSet(calls, ProvisionalId(now), Len(sess) + 1)
  /\ out' = <<Emit("generate-sdp-offer", IF socket # NoSocket THEN socket ELSE "all",
                   ProvisionalId(now))>>
  /\ UNCHANGED pending

\* startOutboundCallWithServerWebRTC up to its first await (createOfferSdp)
startOutboundCallWithServerWebRTC(phone, scan) ==
  /\ Len(scan.ps) < MaxPeers
  /\ HasFreeSlot
  /\ sess' = scan.ss
  /\ pending' = Suspend(Cont("startOutbound", "createOffer", NoObj, NoKey, phone,
                             Len(scan.ps) + 1, NoSocket, "none"))
  /\ out' = <<>>
  /\ UNCHANGED calls

\* POST /api/initiate-call -> startOutboundCall
startOutboundCall(phone, socket) ==
  \E verdict \in {PermVerdict(permissions[phone], now)} :
  \E scan \in {StaleScan(1, calls, sess, peers, timers, now)} :
     /\ permissions' = PermAfterRead(permissions, phone, now)
     /\ lastOp' = Op("startOutboundCall", NoKey, phone)
     /\ IF verdict # "granted"
        THEN /\ out' = <<Throw(PermissionError(verdict), NoKey)>>
             /\ UNCHANGED <<calls, sess, timers, peers, pending>>
        ELSE /\ timers' = scan.tm
             /\ IF scan.conflict # NoKey
                THEN /\ sess' = scan.ss
                     /\ peers' = scan.ps
                     /\ out' = <<Throw("call-in-progress", scan.conflict)>>
                     /\ UNCHANGED <<calls, pending>>
                ELSE IF mode = "bridge"
                     THEN /\ peers' = Append(scan.ps, 0)
                          /\ startOutboundCallWithServerWebRTC(phone, scan)
                     ELSE /\ peers' = scan.ps
                          /\ startOutboundCallBrowserOnly(phone, socket, scan)
     /\ Arrive(IF verdict # "granted" \/ scan.conflict # NoKey THEN "other"
               ELSE IF mode = "bridge" THEN "initiate-suspended" ELSE "initiate")
     /\ UNCHANGED <<mode, now, ticks>>

\* startOutboundCallWithServerWebRTC: the offer is ready, the provider is called
startOutboundOfferReady(i) ==
  /\ pending[i].op = "startOutbound" /\ pending[i].stage = "createOffer"
  /\ pending' = [pending EXCEPT ![i].stage = "initiate"]
  /\ lastOp' = Op("startOutboundOfferReady", NoKey, pending[i].phone)
  /\ out' = <<Api("initiateOutboundCall", NoKey)>>
  /\ Resume("initiate-resumed")
  /\ UNCHANGED <<mode, now, ticks, calls, sess, permissions, timers, peers>>

\* startOutboundCallWithServerWebRTC: the provider answered with an id
\* (result.calls[0].id), or without one (`call_${Date.now()}`)
startOutboundInitiated(i, callId) ==
  /\ pending[i].op = "startOutbound" /\ pending[i].stage = "initiate"
  /\ Len(sess) < MaxSessions
  /\ sess' = Append(sess, NewSession(callId, "outbound", pending[i].phone, "ringing",
                                     NoSocket, pending[i].peer, "none", now))
  /\ calls' = MapSet(calls, callId, Len(sess) + 1)
  /\ pending' = [pending EXCEPT ![i] = Idle]
  /\ lastOp' = Op("startOutboundInitiated", callId, pending[i].phone)
  /\ out' = <<Emit("call-ringing", "all", callId)>>
  /\ Resume("initiate-done")
  /\ UNCHANGED <<mode, now, ticks, permissions, timers, peers>>

\* startOutboundCallWithServerWebRTC: the provider call failed, the error
\* leaves the handler
startOutboundFailed(i) ==
  /\ pending[i].op = "startOutbound" /\ pending[i].stage = "initiate"
  /\ pending' = [pending EXCEPT ![i] = Idle]
  /\ lastOp' = Op("startOutboundFailed", NoKey, pending[i].phone)
  /\ out' = <<Throw("provider-error", NoKey)>>
  /\ Resume("other")
  /\ UNCHANGED <<mode, now, ticks, calls, sess, permissions, timers, peers>>

----------------------------------------------------------------------------
(* Outbound call: browser offer, provider answer, provider status *)

\* handleBrowserSdpOffer up to its await: lookup, duplicate guard, provider call
handleBrowserSdpOffer(callId) ==
  LET o == MapGet(calls, callId)
  IN /\ lastOp' = Op("handleBrowserSdpOffer", callId, "offer")
     /\ IF o = NoObj \/ sess[o].status \in {"ringing", "connected"}
        THEN /\ out' = <<>>
             /\ UNCHANGED pending
        ELSE /\ HasFreeSlot
             /\ pending' = Suspend(Cont("browserOffer", "initiate", o, callId,
                                        sess[o].recipientPhone, NoPeer, NoSocket,
                                        sess[o].status))
             /\ out' = <<Api("initiateOutboundCall", callId)>>
     /\ Arrive("other")
     /\ UNCHANGED <<mode, now, ticks, calls, sess, permissions, timers, peers>>

\* handleBrowserSdpOffer after the provider call succeeded: adopt the id the
\* provider assigned (waCallId; the old callId when the result has none)
handleBrowserSdpOfferDone(i, waCallId) ==
  LET o == pending[i].obj
      callId == pending[i].key
  IN /\ pending[i].op = "browserOffer"
     /\ sess' = [sess EXCEPT ![o].callId = waCallId, ![o].status = "ringing"]
     /\ calls' = IF waCallId # callId
                 THEN MapSet(MapDelete(calls, callId), waCallId, o)
                 ELSE calls
     /\ pending' = [pending EXCEPT ![i] = Idle]
     /\ lastOp' = Op("handleBrowserSdpOfferDone", callId, "ok")
     /\ out' = <<Emit("call-ringing", "all", waCallId)>>
     /\ Resume("other")
     /\ UNCHANGED <<mode, now, ticks, permissions, timers, peers>>

\* handleBrowserSdpOffer after the provider call failed (catch branch)
handleBrowserSdpOfferFailed(i) ==
  LET o == pending[i].obj
      callId == pending[i].key
      ss == [sess EXCEPT ![o].status = "failed"]
  IN /\ pending[i].op = "browserOffer"
     /\ sess' = ss
     /\ peers' = cleanupPeers(calls, ss, peers, callId)
     /\ timers' = cleanupTimers(calls, timers, callId, now)
     /\ pending' = [pending EXCEPT ![i] = Idle]
     /\ lastOp' = Op("handleBrowserSdpOfferFailed", callId, "error")
     /\ out' = <<Emit("call-error", "all", callId)>>
     /\ Resume("other")
     /\ UNCHANGED <<mode, now, ticks, calls, permissions>>

\* variant: no fallback, only the exact id is looked up
AnswerFallback_None(cs, ss) == 0

\* the fallback loop of handleOutboundSdpAnswer: first outbound session in
\* ringing or accepted, in Map order (0 when there is none)
AnswerFallback(cs, ss) ==
  LET hits == {i \in 1..Len(cs) : /\ ss[cs[i].obj].direction = "outbound"
                                  /\ ss[cs[i].obj].status \in {"ringing", "accepted"}}
  IN IF hits = {} THEN 0 ELSE CHOOSE i \in hits : \A j \in hits : i <= j

\* handleOutboundSdpAnswer up to its await (setRemoteAnswer) or, without a
\* provider-side peer, to its end
handleOutboundSdpAnswer(callId) ==
  LET exact == MapGet(calls, callId)
      fb == AnswerFallback(calls, sess)
      o == IF exact # NoObj THEN exact ELSE IF fb # 0 THEN calls[fb].obj ELSE NoObj
      target == IF o # NoObj /\ sess[o].socketId # NoSocket THEN sess[o].socketId ELSE "all"
  IN /\ lastOp' = Op("handleOutboundSdpAnswer", callId, "answer")
     /\ IF o = NoObj
        THEN /\ out' = <<>>
             /\ UNCHANGED <<calls, sess, pending>>
        ELSE /\ calls' = IF exact # NoObj THEN calls
                         ELSE MapSet(MapDelete(calls, calls[fb].key), callId, o)
             /\ sess' = IF exact # NoObj
                        THEN [sess EXCEPT ![o].status = "connected"]
                        ELSE [sess EXCEPT ![o].callId = callId, ![o].status = "connected"]
             /\ IF sess[o].whatsappPeer # NoPeer
                THEN /\ HasFreeSlot
                     /\ pending' = Suspend(Cont("outboundAnswer", "setRemoteAnswer", o, callId,
                                                sess[o].recipientPhone, sess[o].whatsappPeer,
                                                target, "connected"))
                     /\ out' = <<>>
                ELSE /\ out' = <<Emit("sdp-answer-from-whatsapp", target, callId),
                                 Emit("call-connected", "all", callId)>>
                     /\ UNCHANGED pending
     /\ Arrive(IF o # NoObj /\ sess[o].whatsappPeer # NoPeer THEN "answer-suspended"
               ELSE "answer")
     /\ UNCHANGED <<mode, now, ticks, permissions, timers, peers>>

\* handleOutboundSdpAnswer after setRemoteAnswer resolved
handleOutboundSdpAnswerDone(i) ==
  /\ pending[i].op = "outboundAnswer"
  /\ pending' = [pending EXCEPT ![i] = Idle]
  /\ lastOp' = Op("handleOutboundSdpAnswerDone", pending[i].key, "ok")
  /\ out' = <<Emit("setup-browser-audio", pending[i].socket, pending[i].key),
              Emit("call-connected", "all", pending[i].key)>>
  /\ Resume("answer-done")
  /\ UNCHANGED <<mode, now, ticks, calls, sess, permissions, timers, peers>>

\* the fallback loop of handleOutboundStatus: first outbound session in
\* ringing, accepted or awaiting_browser_sdp, in Map order
StatusFallback(cs, ss) ==
  LET hits == {i \in 1..Len(cs) :
                 /\ ss[cs[i].obj].direction = "outbound"
                 /\ ss[cs[i].obj].status \in {"ringing", "accepted", "awaiting_browser_sdp"}}
  IN IF hits = {} THEN 0 ELSE CHOOSE i \in hits : \A j \in hits : i <= j

StatusValues == {"ringing", "accepted", "rejected", "other"}

handleOutboundStatus(callId, statusValue) ==
  LET exact == MapGet(calls, callId)
      fb == StatusFallback(calls, sess)
      o == IF exact # NoObj THEN exact ELSE IF fb # 0 THEN calls[fb].obj ELSE NoObj
  IN /\ lastOp' = [Op("handleOutboundStatus", callId, statusValue) EXCEPT
                     !.was = IF o = NoObj THEN "none" ELSE sess[o].status]
     /\ IF o = NoObj
        THEN /\ out' = <<>>
             /\ UNCHANGED <<sess, timers, peers>>
        ELSE CASE statusValue = "ringing" ->
                    /\ sess' = [sess EXCEPT ![o].status = "ringing"]
                    /\ out' = <<Emit("call-ringing", "all", callId)>>
                    /\ UNCHANGED <<timers, peers>>
               [] statusValue = "accepted" ->
                    /\ sess' = [sess EXCEPT ![o].status = "accepted"]
                    /\ out' = <<Emit("call-accepted", "all", callId)>>
                    /\ UNCHANGED <<timers, peers>>
               [] statusValue = "rejected" ->
                    /\ sess' = [sess EXCEPT ![o].status = "rejected"]
                    /\ out' = <<Emit("call-rejected", "all", callId)>>
                    /\ peers' = cleanupPeers(calls, sess, peers, callId)
                    /\ timers' = cleanupTimers(calls, timers, callId, now)
               [] OTHER ->
                    /\ out' = <<Emit("call-status", "all", callId)>>
                    /\ UNCHANGED <<sess, timers, peers>>
     /\ Arrive(IF statusValue = "ringing" THEN "ringing" ELSE "other")
     /\ UNCHANGED <<mode, now, ticks, calls, permissions, pending>>

----------------------------------------------------------------------------
(* Inbound call *)

Offers == {"o1"}

\* handleInboundCall: the webhook's call id becomes the key of a new session
handleInboundCall(callId, from, sdpOffer) ==
  /\ Len(sess) < MaxSessions
  /\ sess' = Append(sess, NewSession(callId, "inbound", from, "incoming", NoSocket,
                                     NoPeer, sdpOffer, now))
  /\ calls' = MapSet(calls, callId, Len(sess) + 1)
  /\ lastOp' = Op("handleInboundCall", callId, from)
  /\ out' = <<Emit("call-incoming", "all", callId)>>
  /\ Arrive("other")
  /\ UNCHANGED <<mode, now, ticks, permissions, timers, peers, pending>>

\* acceptInboundCall up to its first await (bridge mode) or to its end (relay)
acceptInboundCall(callId, socket) ==
  LET o == MapGet(calls, callId)
      target == IF socket # NoSocket THEN socket ELSE "all"
  IN /\ lastOp' = Op("acceptInboundCall", callId, socket)
     /\ IF o = NoObj \/ sess[o].direction # "inbound"
        THEN /\ out' = <<Throw("no-inbound-call", callId)>>
             /\ UNCHANGED <<sess, peers, pending>>
        ELSE IF mode = "bridge"
             THEN /\ Len(peers) < MaxPeers
                  /\ HasFreeSlot
                  /\ peers' = Append(peers, 0)
                  /\ sess' = [sess EXCEPT ![o].status = "accepting",
                                          ![o].whatsappPeer = Len(peers) + 1]
                  /\ pending' = Suspend(Cont("acceptInbound", "createAnswer", o, callId,
                                             sess[o].recipientPhone, Len(peers) + 1, target,
                                             "accepting"))
                  /\ out' = <<>>
             ELSE /\ sess' = [sess EXCEPT ![o].status = "accepting"]
                  /\ out' = <<Emit("inbound-sdp-offer", target, callId)>>
                  /\ UNCHANGED <<peers, pending>>
     /\ Arrive("other")
     /\ UNCHANGED <<mode, now, ticks, calls, permissions, timers>>

\* acceptInboundCall: createAnswerSdp resolved, answerCall(pre_accept) is sent
acceptInboundCallAnswerReady(i) ==
  /\ pending[i].op = "acceptInbound" /\ pending[i].stage = "createAnswer"
  /\ pending' = [pending EXCEPT ![i].stage = "pre_accept",
                                ![i].was = sess[pending[i].obj].status]
  /\ lastOp' = Op("acceptInboundCallAnswerReady", pending[i].key, "ok")
  /\ out' = <<Api("answerCall-pre_accept", pending[i].key)>>
  /\ Resume("other")
  /\ UNCHANGED <<mode, now, ticks, calls, sess, permissions, timers, peers>>

\* handleBrowserSdpAnswer up to its first await
handleBrowserSdpAnswer(callId) ==
  LET o == MapGet(calls, callId)
  IN /\ lastOp' = Op("handleBrowserSdpAnswer", callId, "answer")
     /\ IF o # NoObj /\ sess[o].direction = "inbound" /\ mode = "relay"
        THEN /\ HasFreeSlot
             /\ pending' = Suspend(Cont("browserAnswer", "pre_accept", o, callId,
                                        sess[o].recipientPhone, NoPeer, "all",
                                        sess[o].status))
             /\ out' = <<Api("answerCall-pre_accept", callId)>>
        ELSE \* unknown call, or the browser-facing peer, which no code path sets
             /\ out' = <<>>
             /\ UNCHANGED pending
     /\ Arrive("other")
     /\ UNCHANGED <<mode, now, ticks, calls, sess, permissions, timers, peers>>

\* variant: the call counts as connected once answerCall(pre_accept) returned
answerCallPreAcceptReturned_Connects(i, ok) ==
  LET o == pending[i].obj
  IN /\ pending[i].op \in {"acceptInbound", "browserAnswer"}
     /\ pending[i].stage = "pre_accept"
     /\ lastOp' = Op("answerCallPreAcceptReturned", pending[i].key, pending[i].op)
     /\ pending' = [pending EXCEPT ![i] = Idle]
     /\ IF ok
        THEN /\ sess' = [sess EXCEPT ![o].status = "connected"]
             /\ out' = <<Emit("call-connected", "all", pending[i].key)>>
        ELSE /\ out' = <<Throw("provider-error", pending[i].key)>>
             /\ UNCHANGED sess
     /\ Resume("other")
     /\ UNCHANGED <<mode, now, ticks, calls, permissions, timers, peers>>

\* acceptInboundCall / handleBrowserSdpAnswer: answerCall(pre_accept) returned;
\* on success the status is set and answerCall(accept) is sent, a failure
\* leaves the handler as a rejected promise
answerCallPreAcceptReturned(i, ok) ==
  LET o == pending[i].obj
  IN /\ pending[i].op \in {"acceptInbound", "browserAnswer"}
     /\ pending[i].stage = "pre_accept"
     /\ lastOp' = Op("answerCallPreAcceptReturned", pending[i].key, pending[i].op)
     /\ IF ok
        THEN /\ sess' = [sess EXCEPT ![o].status = "pre_accepted"]
             /\ pending' = [pending EXCEPT ![i].stage = "accept", ![i].was = "pre_accepted"]
             /\ out' = <<Api("answerCall-accept", pending[i].key)>>
        ELSE /\ pending' = [pending EXCEPT ![i] = Idle]
             /\ out' = <<Throw("provider-error", pending[i].key)>>
             /\ UNCHANGED sess
     /\ Resume("other")
     /\ UNCHANGED <<mode, now, ticks, calls, permissions, timers, peers>>

\* acceptInboundCall / handleBrowserSdpAnswer: answerCall(accept) returned
answerCallAcceptReturned(i, ok) ==
  LET o == pending[i].obj
  IN /\ pending[i].op \in {"acceptInbound", "browserAnswer"}
     /\ pending[i].stage = "accept"
     /\ lastOp' = Op("answerCallAcceptReturned", pending[i].key, pending[i].op)
     /\ pending' = [pending EXCEPT ![i] = Idle]
     /\ IF ok
        THEN /\ sess' = [sess EXCEPT ![o].status = "connected"]
             /\ out' = IF pending[i].op = "acceptInbound"
                       THEN <<Emit("setup-browser-audio", pending[i].socket, pending[i].key),
                              Emit("call-connected", "all", pending[i].key)>>
                       ELSE <<Emit("call-connected", "all", pending[i].key)>>
        ELSE /\ out' = <<Throw("provider-error", pending[i].key)>>
             /\ UNCHANGED sess
     /\ Resume("other")
     /\ UNCHANGED <<mode, now, ticks, calls, permissions, timers, peers>>

----------------------------------------------------------------------------
(* Ending a call *)

\* variant: call-ended is broadcast for every terminate webhook
handleTerminate_AlwaysEmits(callId) ==
  LET o == MapGet(calls, callId)
  IN /\ lastOp' = Op("handleTerminate", callId, "terminate")
     /\ out' = <<Emit("call-ended", "all", callId)>>
     /\ IF o = NoObj
        THEN UNCHANGED <<sess, peers, timers>>
        ELSE /\ sess' = [sess EXCEPT ![o].status = "terminated"]
             /\ peers' = cleanupPeers(calls, sess, peers, callId)
             /\ timers' = cleanupTimers(calls, timers, callId, now)
     /\ Arrive("other")
     /\ UNCHANGED <<mode, now, ticks, calls, permissions, pending>>

\* handleTerminate (webhook)
handleTerminate(callId) ==
  LET o == MapGet(calls, callId)
  IN /\ lastOp' = Op("handleTerminate", callId, "terminate")
     /\ IF o = NoObj
        THEN /\ out' = <<>>
             /\ UNCHANGED <<sess, peers, timers>>
        ELSE /\ sess' = [sess EXCEPT ![o].status = "terminated"]
             /\ out' = <<Emit("call-ended", "all", callId)>>
             /\ peers' = cleanupPeers(calls, sess, peers, callId)
             /\ timers' = cleanupTimers(calls, timers, callId, now)
     /\ Arrive("other")
     /\ UNCHANGED <<mode, now, ticks, calls, permissions, pending>>

\* rejectInboundCall: whatsappApi exports no rejectCall, so the call inside the
\* try block throws at once and the handler runs to its end without suspending
rejectInboundCall(callId) ==
  LET o == MapGet(calls, callId)
  IN /\ lastOp' = Op("rejectInboundCall", callId, "reject")
     /\ IF o = NoObj \/ sess[o].direction # "inbound"
        THEN /\ out' = <<Throw("no-inbound-call", callId)>>
             /\ UNCHANGED <<sess, peers, timers>>
        ELSE /\ sess' = [sess EXCEPT ![o].status = "rejected"]
             /\ out' = <<Emit("call-ended", "all", callId)>>
             /\ peers' = cleanupPeers(calls, sess, peers, callId)
             /\ timers' = cleanupTimers(calls, timers, callId, now)
     /\ Arrive("other")
     /\ UNCHANGED <<mode, now, ticks, calls, permissions, pending>>

\* endCall up to its await (terminateCall)
endCall(callId) ==
  LET o == MapGet(calls, callId)
  IN /\ lastOp' = Op("endCall", callId, "end")
     /\ IF o = NoObj
        THEN /\ out' = <<Throw("no-active-call", callId)>>
             /\ UNCHANGED pending
        ELSE /\ HasFreeSlot
             /\ pending' = Suspend(Cont("endCall", "terminate", o, callId,
                                        sess[o].recipientPhone, NoPeer, "all",
                                        sess[o].status))
             /\ out' = <<Api("terminateCall", callId)>>
     /\ Arrive("other")
     /\ UNCHANGED <<mode, now, ticks, calls, sess, permissions, timers, peers>>

\* endCall after terminateCall returned, with or without an error
endCallDone(i) ==
  LET o == pending[i].obj
      callId == pending[i].key
  IN /\ pending[i].op = "endCall"
     /\ sess' = [sess EXCEPT ![o].status = "terminated"]
     /\ peers' = cleanupPeers(calls, sess, peers, callId)
     /\ timers' = cleanupTimers(calls, timers, callId, now)
     /\ pending' = [pending EXCEPT ![i] = Idle]
     /\ lastOp' = Op("endCallDone", callId, "end")
     /\ out' = <<Emit("call-ended", "all", callId)>>
     /\ Resume("other")
     /\ UNCHANGED <<mode, now, ticks, calls, permissions>>

\* variant: an incoming call is not reset
ResetStatuses_NoIncoming == {"awaiting_browser_sdp", "ringing", "accepted"}

ResetStatuses == {"awaiting_browser_sdp", "ringing", "accepted", "incoming"}

RECURSIVE ResetScan(_, _, _, _, _, _, _)
\* the loop of resetCalls over the registry
ResetScan(i, cs, ss, ps, tm, t, count) ==
  IF i > Len(cs) THEN [ss |-> ss, ps |-> ps, tm |-> tm, count |-> count]
  ELSE IF ss[cs[i].obj].status \in ResetStatuses
       THEN ResetScan(i + 1, cs, [ss EXCEPT ![cs[i].obj].status = "reset"],
                      cleanupPeers(cs, ss, ps, cs[i].key),
                      cleanupTimers(cs, tm, cs[i].key, t), t, count + 1)
       ELSE ResetScan(i + 1, cs, ss, ps, tm, t, count)

\* POST /api/reset-calls -> resetCalls
resetCalls ==
  LET r == ResetScan(1, calls, sess, peers, timers, now, 0)
  IN /\ sess' = r.ss
     /\ peers' = r.ps
     /\ timers' = r.tm
     /\ lastOp' = Op("resetCalls", [kind |-> "count", n |-> r.count], "reset")
     /\ out' = <<Emit("calls-reset", "all", [kind |-> "count", n |-> r.count])>>
     /\ Arrive("other")
     /\ UNCHANGED <<mode, now, ticks, calls, permissions, pending>>

----------------------------------------------------------------------------

Init ==
  /\ mode \in {"bridge", "relay"}
  /\ now = 0
  /\ ticks = 0
  /\ events = 0
  /\ calls = <<>>
  /\ sess = <<>>
  /\ permissions = [p \in Phones |-> NoPerm]
  /\ timers = {}
  /\ peers = <<>>
  /\ pending = [i \in 1..MaxPending |-> Idle]
  /\ lastOp = Op("init", NoKey, "none")
  /\ out = <<>>
  /\ scen = "start"

\* the permission ledger and the entry of call initiation
NextLedger ==
  \/ \E p \in Phones : getPermissionStatus(p)
  \/ \E p \in Phones : handlePermissionGranted(p)
  \/ \E p \in Phones, so \in Sockets \cup {NoSocket} : startOutboundCall(p, so)
  \/ \E i \in 1..MaxPending : startOutboundOfferReady(i)
  \/ \E i \in 1..MaxPending, w \in FreshProviderIds \cup {ProvisionalId(now)} :
        startOutboundInitiated(i, w)
  \/ \E i \in 1..MaxPending : startOutboundFailed(i)
  \/ Tick(TtlDeltas)

\* outbound calls when no media bridge is available (browser relay) and a
\* browser is connected, so that /api/initiate-call finds sockets[0]
NextRelay ==
  \/ \E p \in Phones : handlePermissionGranted(p)
  \/ \E p \in Phones, so \in Sockets : startOutboundCall(p, so)
  \/ \E k \in EventIds : handleBrowserSdpOffer(k)
  \/ \E i \in 1..MaxPending : \E w \in FreshProviderIds \cup {pending[i].key} :
        handleBrowserSdpOfferDone(i, w)
  \/ \E i \in 1..MaxPending : handleBrowserSdpOfferFailed(i)
  \/ \E k \in EventIds : handleOutboundSdpAnswer(k)
  \/ \E k \in EventIds, v \in StatusValues : handleOutboundStatus(k, v)
  \/ \E k \in EventIds : handleTerminate(k)
  \/ \E k \in EventIds : endCall(k)
  \/ \E i \in 1..MaxPending : endCallDone(i)
  \/ Tick(StaleDeltas)

InitRelay == Init /\ mode = "relay"

SpecRelay == InitRelay /\ [][NextRelay]_vars

\* the handlers of one outbound call that is set up and answered
NextScenario ==
  \/ \E p \in Phones : handlePermissionGranted(p)
  \/ \E p \in Phones, so \in Sockets \cup {NoSocket} : startOutboundCall(p, so)
  \/ \E i \in 1..MaxPending : startOutboundOfferReady(i)
  \/ \E i \in 1..MaxPending, w \in FreshProviderIds \cup {ProvisionalId(now)} :
        startOutboundInitiated(i, w)
  \/ \E i \in 1..MaxPending : startOutboundFailed(i)
  \/ \E k \in EventIds, v \in StatusValues : handleOutboundStatus(k, v)
  \/ \E k \in EventIds : handleOutboundSdpAnswer(k)
  \/ \E i \in 1..MaxPending : handleOutboundSdpAnswerDone(i)

SpecScenario == Init /\ [][NextScenario]_vars

\* the life of inbound calls
NextInbound ==
  \/ \E k \in EventIds, p \in Phones, f \in Offers : handleInboundCall(k, p, f)
  \/ \E k \in EventIds, so \in Sockets \cup {NoSocket} : acceptInboundCall(k, so)
  \/ \E i \in 1..MaxPending : acceptInboundCallAnswerReady(i)
  \/ \E k \in EventIds : handleBrowserSdpAnswer(k)
  \/ \E i \in 1..MaxPending, ok \in BOOLEAN : answerCallPreAcceptReturned(i, ok)
  \/ \E i \in 1..MaxPending, ok \in BOOLEAN : answerCallAcceptReturned(i, ok)
  \/ \E k \in EventIds : handleTerminate(k)
  \/ \E k \in EventIds : rejectInboundCall(k)
  \/ \E k \in EventIds : endCall(k)
  \/ \E i \in 1..MaxPending : endCallDone(i)
  \/ resetCalls
  \/ PurgeTimer
  \/ Tick(RetentionDeltas)

\* an inbound call that is accepted, answered, rejected, terminated or reset
NextAccept ==
  \/ \E k \in EventIds, p \in Phones, f \in Offers : handleInboundCall(k, p, f)
  \/ \E k \in EventIds, so \in Sockets \cup {NoSocket} : acceptInboundCall(k, so)
  \/ \E i \in 1..MaxPending : acceptInboundCallAnswerReady(i)
  \/ \E k \in EventIds : handleBrowserSdpAnswer(k)
  \/ \E i \in 1..MaxPending, ok \in BOOLEAN : answerCallPreAcceptReturned(i, ok)
  \/ \E i \in 1..MaxPending, ok \in BOOLEAN : answerCallAcceptReturned(i, ok)
  \/ \E k \in EventIds : handleTerminate(k)
  \/ \E k \in EventIds : rejectInboundCall(k)
  \/ resetCalls

SpecAccept == Init /\ [][NextAccept]_vars

\* outbound and inbound calls in every status a reset can meet
NextReset ==
  \/ \E p \in Phones : handlePermissionGranted(p)
  \/ \E p \in Phones, so \in Sockets : startOutboundCall(p, so)
  \/ \E i \in 1..MaxPending : startOutboundOfferReady(i)
  \/ \E i \in 1..MaxPending, w \in FreshProviderIds : startOutboundInitiated(i, w)
  \/ \E k \in EventIds, v \in StatusValues : handleOutboundStatus(k, v)
  \/ \E k \in EventIds, p \in Phones, f \in Offers : handleInboundCall(k, p, f)
  \/ \E k \in EventIds, so \in Sockets : acceptInboundCall(k, so)
  \/ \E i \in 1..MaxPending : acceptInboundCallAnswerReady(i)
  \/ \E k \in EventIds : handleBrowserSdpAnswer(k)
  \/ \E i \in 1..MaxPending, ok \in BOOLEAN : answerCallPreAcceptReturned(i, ok)
  \/ \E i \in 1..MaxPending, ok \in BOOLEAN : answerCallAcceptReturned(i, ok)
  \/ resetCalls

SpecReset == Init /\ [][NextReset]_vars

\* outbound calls that end and are kept for the retention window
NextRetention ==
  \/ \E p \in Phones : handlePermissionGranted(p)
  \/ \E p \in Phones, so \in Sockets : startOutboundCall(p, so)
  \/ \E k \in EventIds, v \in StatusValues : handleOutboundStatus(k, v)
  \/ \E k \in EventIds : handleTerminate(k)
  \/ PurgeTimer
  \/ Tick(RetentionDeltas)

SpecRetention == InitRelay /\ [][NextRetention]_vars

\* provisional ids of outbound sessions that are no longer keys of the registry
RekeyedIds ==
  {ProvisionalId(sess[o].createdAt) : o \in {x \in 1..Len(sess) : sess[x].direction = "outbound"}}
    \ MapKeys(calls)

\* an outbound call in relay mode whose provider events carry the provider's
\* id, a key of the registry, or the provisional id the session started with
NextFallback ==
  \/ \E p \in Phones : handlePermissionGranted(p)
  \/ \E p \in Phones, so \in Sockets : startOutboundCall(p, so)
  \/ \E k \in EventIds : handleBrowserSdpOffer(k)
  \/ \E i \in 1..MaxPending : \E w \in FreshProviderIds \cup {pending[i].key} :
        handleBrowserSdpOfferDone(i, w)
  \/ \E k \in EventIds \cup RekeyedIds : handleOutboundSdpAnswer(k)
  \/ \E k \in EventIds \cup RekeyedIds, v \in StatusValues : handleOutboundStatus(k, v)

SpecFallback == InitRelay /\ [][NextFallback]_vars

\* the phones of the ledger when grants for different phones meet
LedgerPhones == {"p1", "p2"}

InitGrant ==
  /\ mode = "relay"
  /\ now = 0
  /\ ticks = 0
  /\ events = 0
  /\ calls = <<>>
  /\ sess = <<>>
  /\ permissions = [p \in LedgerPhones |-> NoPerm]
  /\ timers = {}
  /\ peers = <<>>
  /\ pending = [i \in 1..MaxPending |-> Idle]
  /\ lastOp = Op("init", NoKey, "none")
  /\ out = <<>>
  /\ scen = "start"

\* grants, reads and call initiations for two phones
NextGrant ==
  \/ \E p \in LedgerPhones : handlePermissionGranted(p)
  \/ \E p \in LedgerPhones : getPermissionStatus(p)
  \/ \E p \in LedgerPhones, so \in Sockets : startOutboundCall(p, so)
  \/ Tick(TtlDeltas)

SpecGrant == InitGrant /\ [][NextGrant]_vars

\* every handler a signaling client or the provider reaches with a call id,
\* in relay mode, over a registry of inbound and outbound calls
NextIdEvents ==
  \/ \E p \in Phones : handlePermissionGranted(p)
  \/ \E p \in Phones, so \in Sockets : startOutboundCall(p, so)
  \/ \E k \in EventIds, p \in Phones, f \in Offers : handleInboundCall(k, p, f)
  \/ \E k \in EventIds : handleBrowserSdpOffer(k)
  \/ \E i \in 1..MaxPending : \E w \in FreshProviderIds \cup {pending[i].key} :
        handleBrowserSdpOfferDone(i, w)
  \/ \E i \in 1..MaxPending : handleBrowserSdpOfferFailed(i)
  \/ \E k \in EventIds, so \in Sockets : acceptInboundCall(k, so)
  \/ \E k \in EventIds : handleBrowserSdpAnswer(k)
  \/ \E i \in 1..MaxPending, ok \in BOOLEAN : answerCallPreAcceptReturned(i, ok)
  \/ \E i \in 1..MaxPending, ok \in BOOLEAN : answerCallAcceptReturned(i, ok)
  \/ \E k \in EventIds : handleTerminate(k)
  \/ \E k \in EventIds : rejectInboundCall(k)
  \/ \E k \in EventIds : endCall(k)
  \/ \E i \in 1..MaxPending : endCallDone(i)

SpecIdEvents == InitRelay /\ [][NextIdEvents]_vars

SpecLedger == Init /\ [][NextLedger]_vars

SpecInbound == Init /\ [][NextInbound]_vars

----------------------------------------------------------------------------
(* Properties *)

RegistryObjs == {calls[i].obj : i \in 1..Len(calls)}

LiveOutbound ==
  {o \in RegistryObjs : sess[o].direction = "outbound" /\ sess[o].status \in ActiveOutbound}

\* C1: in every reachable state at most one outbound session of the registry
\* has a status in awaiting_browser_sdp, ringing, accepted, connected.
C1_AtMostOneLiveOutbound == Cardinality(LiveOutbound) <= 1

\* the step just taken is a run of startOutboundCall up to its first await
InitiateStep == lastOp'.op = "startOutboundCall" /\ events' # events

HasApi(o) == \E i \in 1..Len(o) : o[i].kind = "api"

HasThrow(o, name) == \E i \in 1..Len(o) : o[i].kind = "throw" /\ o[i].name = name

\* an outbound session that blocks a new call: ringing, accepted, connected, or
\* awaiting the browser's offer for at most STALE_TIMEOUT
Blocking(o) ==
  /\ sess[o].direction = "outbound"
  /\ \/ sess[o].status \in {"ringing", "accepted", "connected"}
     \/ /\ sess[o].status = "awaiting_browser_sdp"
        /\ now - sess[o].createdAt <= STALE_TIMEOUT

\* C2: an initiate-outbound request for a granted phone, made while a blocking
\* outbound session is in the registry, fails with the conflict error, creates
\* no session, issues no provider call and leaves every session's status as it
\* was.
C2_ConflictChangesNothing ==
  [][(/\ InitiateStep
      /\ PermVerdict(permissions[lastOp'.arg], now) = "granted"
      /\ \E o \in RegistryObjs : Blocking(o))
     => (/\ HasThrow(out', "call-in-progress")
         /\ ~HasApi(out')
         /\ calls' = calls
         /\ pending' = pending
         /\ Len(sess') = Len(sess)
         /\ \A o \in 1..Len(sess) : sess'[o].status = sess[o].status)]_vars

\* C3: every key of the registry is the id of the session stored under it,
\* and no session object is stored under two keys.
C3_KeysMatchIds ==
  /\ \A i \in 1..Len(calls) : sess[calls[i].obj].callId = calls[i].key
  /\ \A i, j \in 1..Len(calls) : calls[i].obj = calls[j].obj => i = j

HasEmit(o) == \E i \in 1..Len(o) : o[i].kind = "emit"

\* the handlers a call id reaches through a provider status, remote answer,
\* local offer, local answer, accept, reject, end or provider terminate event
CallEvents ==
  {"handleOutboundStatus", "handleOutboundSdpAnswer", "handleBrowserSdpOffer",
   "handleBrowserSdpAnswer", "acceptInboundCall", "rejectInboundCall", "endCall",
   "handleTerminate"}

\* C4: an event that names the call id of a session in a terminal status
\* leaves that status as it is, emits nothing and calls the provider for nothing.
C4_TerminalAbsorbing ==
  [][\A o \in RegistryObjs :
       (/\ sess[o].status \in TerminalStatuses
        /\ events' # events
        /\ lastOp'.op \in CallEvents
        /\ MapGet(calls, lastOp'.key) = o)
       => (/\ sess'[o].status = sess[o].status
           /\ ~HasEmit(out')
           /\ ~HasApi(out'))]_vars

\* the provider calls whose completion commits a status
Committing == {"browserOffer", "acceptInbound", "browserAnswer"}

\* the statuses set by reject, end, provider terminate and reset
EndedStatuses == {"rejected", "terminated", "reset"}

\* C5: when the provider call of a handler returns and its session was moved
\* to a terminal status by reject, end, provider terminate or reset while the
\* call was in flight, the session keeps that terminal status.
C5_RevalidateBeforeCommit ==
  [][\A i \in 1..MaxPending :
       (/\ pending[i].op \in Committing
        /\ pending[i].stage \in {"initiate", "pre_accept", "accept"}
        /\ pending'[i] # pending[i]
        /\ pending[i].was \notin TerminalStatuses
        /\ sess[pending[i].obj].status \in EndedStatuses)
       => sess'[pending[i].obj].status = sess[pending[i].obj].status]_vars

\* C6: with a grant made at T = grantedAt in the ledger, a read before
\* T + 72h answers granted and keeps the entry, a read at or after T + 72h
\* answers expired and removes the entry.
C6_GrantLastsUpTo72h ==
  [][\A p \in Phones :
       (/\ lastOp'.op = "getPermissionStatus"
        /\ lastOp'.arg = p
        /\ events' # events
        /\ permissions[p] # NoPerm)
       => IF now < permissions[p].grantedAt + PERMISSION_TTL
          THEN out'[1].name = "granted" /\ permissions'[p] = permissions[p]
          ELSE out'[1].name = "expired" /\ permissions'[p] = NoPerm]_vars

\* C9: a provider status accepted delivered a second time, right after the
\* delivery that moved the ringing session to accepted, changes no session
\* and emits no call-accepted.
C9_AcceptedIdempotent ==
  [][(/\ lastOp.op = "handleOutboundStatus" /\ lastOp.arg = "accepted"
      /\ lastOp.was = "ringing"
      /\ lastOp'.op = "handleOutboundStatus" /\ lastOp'.arg = "accepted"
      /\ lastOp'.key = lastOp.key
      /\ events' # events)
     => (/\ sess' = sess
         /\ calls' = calls
         /\ \A i \in 1..Len(out') : out'[i].name # "call-accepted")]_vars

\* C7: an initiate-outbound request for a phone the ledger read reports as
\* never granted or as expired throws before anything else happens: no
\* session, no suspended provider call, no registry change; and the error for
\* a missing grant differs from the error for an expired one.
C7_PermissionCheckedFirst ==
  [][\A p \in Phones :
       (/\ InitiateStep
        /\ lastOp'.arg = p
        /\ (permissions[p] = NoPerm \/ now > permissions[p].expiresAt))
       => (/\ out' = <<Throw(IF permissions[p] = NoPerm THEN "no-permission"
                             ELSE "permission-expired", NoKey)>>
           /\ calls' = calls
           /\ sess' = sess
           /\ pending' = pending
           /\ peers' = peers
           /\ timers' = timers)]_vars

\* an initiate-outbound request was refused because the grant had expired
C7_Witness ==
  /\ lastOp.op = "startOutboundCall"
  /\ HasThrow(out, "permission-expired")
  /\ calls = <<>>

NonTerminalOutbound ==
  {o \in RegistryObjs : /\ sess[o].direction = "outbound"
                        /\ sess[o].status \notin TerminalStatuses}

\* C8: when the only non-terminal outbound session waits for its offer for
\* more than STALE_TIMEOUT, an initiate-outbound request for a granted phone
\* succeeds: the old session becomes expired, a new session waiting for its
\* offer is stored under the new provisional id, and it is the only
\* non-terminal outbound session afterwards.
C8_StaleSessionReclaimed ==
  [][\A o \in RegistryObjs :
       (/\ InitiateStep
        /\ permissions[lastOp'.arg] # NoPerm
        /\ now <= permissions[lastOp'.arg].expiresAt
        /\ NonTerminalOutbound = {o}
        /\ sess[o].status = "awaiting_browser_sdp"
        /\ now - sess[o].createdAt > STALE_TIMEOUT)
       => (/\ \A i \in 1..Len(out') : out'[i].kind # "throw"
           /\ sess'[o].status = "expired"
           /\ Len(sess') = Len(sess) + 1
           /\ sess'[Len(sess')].direction = "outbound"
           /\ sess'[Len(sess')].status = "awaiting_browser_sdp"
           /\ MapGet(calls', ProvisionalId(now)) = Len(sess')
           /\ NonTerminalOutbound' = {Len(sess')})]_vars

\* an initiate-outbound request has just expired a stale session and created
\* its successor
C8_Witness ==
  /\ lastOp.op = "startOutboundCall"
  /\ Len(out) = 1 /\ out[1].name = "generate-sdp-offer"
  /\ \E o \in RegistryObjs :
       /\ sess[o].status = "expired"
       /\ now - sess[o].createdAt > STALE_TIMEOUT
       /\ [key |-> sess[o].callId, due |-> now + RETENTION] \in timers
  /\ Cardinality(NonTerminalOutbound) = 1

ConnectedNotices(o) == {i \in 1..Len(o) : o[i].name = "call-connected"}

\* C10: after grant, initiate, provider status ringing and remote answer, each
\* run to its end and nothing else delivered, the outbound session is
\* connected and call-connected was emitted exactly once: by the step that
\* ends the answer, and by none of the steps before it.
C10_ScenarioConnects ==
  [][/\ scen' \notin {"done", "off"} => ConnectedNotices(out') = {}
     /\ (scen' = "done" /\ scen # "done")
        => (/\ Cardinality(ConnectedNotices(out')) = 1
            /\ Cardinality(RegistryObjs') = 1
            /\ \A o \in RegistryObjs' : /\ sess'[o].direction = "outbound"
                                        /\ sess'[o].status = "connected")]_vars

\* the four events of the scenario have been handled
C10_Witness ==
  /\ scen = "done"
  /\ Cardinality(ConnectedNotices(out)) = 1

HasApiNamed(o, name) == \E i \in 1..Len(o) : o[i].kind = "api" /\ o[i].name = name

\* C11: in relay mode answerCall(accept) is issued only by the step at which
\* answerCall(pre_accept) of the same handler returned with success, an inbound
\* session becomes connected only at the step at which that answerCall(accept)
\* returned with success, and a browser answer for an inbound session starts
\* with answerCall(pre_accept).
C11_PreAcceptThenAccept ==
  [][mode = "relay" =>
       /\ HasApiNamed(out', "answerCall-accept") =>
             /\ lastOp'.op = "answerCallPreAcceptReturned"
             /\ \E i \in 1..MaxPending :
                  /\ pending[i].stage = "pre_accept"
                  /\ pending'[i].stage = "accept"
                  /\ out' = <<Api("answerCall-accept", pending[i].key)>>
       /\ \A o \in 1..Len(sess) :
            (/\ sess[o].direction = "inbound"
             /\ sess[o].status # "connected"
             /\ sess'[o].status = "connected")
            => /\ lastOp'.op = "answerCallAcceptReturned"
               /\ \E i \in 1..MaxPending :
                    /\ pending[i].stage = "accept"
                    /\ pending[i].obj = o
                    /\ pending'[i] = Idle
       /\ (/\ lastOp'.op = "handleBrowserSdpAnswer"
           /\ events' # events
           /\ MapGet(calls, lastOp'.key) # NoObj
           /\ sess[MapGet(calls, lastOp'.key)].direction = "inbound")
          => out' = <<Api("answerCall-pre_accept", lastOp'.key)>>]_vars

\* in relay mode an accepted inbound call has been answered in two phases
C11_Witness ==
  /\ mode = "relay"
  /\ lastOp.op = "answerCallAcceptReturned"
  /\ HasEmit(out)
  /\ \E o \in RegistryObjs : /\ sess[o].direction = "inbound"
                              /\ sess[o].status = "connected"
                              /\ calls[1].key = lastOp.key

\* the sessions a step moved to reset
ResetNow == {o \in 1..Len(sess) : sess[o].status # "reset" /\ sess'[o].status = "reset"}

\* C12: resetCalls returns the number of sessions it moved to reset,
\* broadcasts calls-reset with that number and leaves every other session as it
\* was; with one session ringing and one incoming it resets both and returns 2.
C12_ResetCountsWhatItResets ==
  [][lastOp'.op = "resetCalls" /\ events' # events =>
       /\ lastOp'.key = [kind |-> "count", n |-> Cardinality(ResetNow)]
       /\ out' = <<Emit("calls-reset", "all", lastOp'.key)>>
       /\ Len(sess') = Len(sess)
       /\ \A o \in 1..Len(sess) : o \notin ResetNow => sess'[o] = sess[o]
       /\ calls' = calls
       /\ (/\ Len(calls) = 2
           /\ {sess[o].status : o \in RegistryObjs} = {"ringing", "incoming"})
          => /\ lastOp'.key.n = 2
             /\ \A o \in RegistryObjs : sess'[o].status = "reset"]_vars

\* a reset has just met one ringing and one incoming session
C12_Witness ==
  /\ lastOp.op = "resetCalls"
  /\ lastOp.key.n = 2
  /\ Len(calls) = 2
  /\ {sess[o].direction : o \in RegistryObjs} = {"outbound", "inbound"}
  /\ \A o \in RegistryObjs : /\ sess[o].status = "reset"
                              /\ [key |-> sess[o].callId, due |-> now + RETENTION] \in timers

\* C13: right after a reset every session of the registry that was in a
\* non-terminal status has the status reset.
C13_ResetLeavesNoLiveCall ==
  [][lastOp'.op = "resetCalls" /\ events' # events =>
       \A o \in RegistryObjs :
          sess[o].status \notin TerminalStatuses => sess'[o].status = "reset"]_vars

\* C14: no media handle is closed more than once.
C14_PeerClosedAtMostOnce == \A p \in 1..Len(peers) : peers[p] <= 1

\* the sessions of the registry a step moved to a terminal status
EndedNow ==
  {o \in RegistryObjs : /\ sess[o].status \notin TerminalStatuses
                        /\ sess'[o].status \in TerminalStatuses}

\* C15: a step that moves a session of the registry to a terminal status
\* keeps it in the registry and schedules the removal of its key RETENTION
\* later, and an entry of a terminal session leaves the registry only through
\* a removal that is due, with no later removal of the same key outstanding.
C15_KeptThenPurged ==
  [][/\ \A o \in EndedNow :
          \E i \in 1..Len(calls') :
             /\ calls'[i].obj = o
             /\ [key |-> calls'[i].key, due |-> now + RETENTION] \in timers'
     /\ \A i \in 1..Len(calls) :
          (/\ sess[calls[i].obj].status \in TerminalStatuses
           /\ ~MapHas(calls', calls[i].key))
          => /\ lastOp'.op = "purge"
             /\ \A tm \in timers : tm.key = calls[i].key => tm.due <= now]_vars

HasEmitNamed(o, name) == \E i \in 1..Len(o) : o[i].kind = "emit" /\ o[i].name = name

\* cleanup has just run for session o: its removal from the registry is
\* scheduled RETENTION from now
CleanedUp(o) ==
  \E i \in 1..Len(calls') :
     /\ calls'[i].obj = o
     /\ [key |-> calls'[i].key, due |-> now + RETENTION] \in timers'

\* C16: when endCall ends for a session of the registry, or rejectInboundCall
\* runs for an inbound session of the registry, the session is terminated
\* (rejected), call-ended is emitted and cleanup has run for the session.
C16_EndAlwaysEnds ==
  [][/\ \A i \in 1..MaxPending :
          (/\ pending[i].op = "endCall"
           /\ pending'[i] # pending[i]
           /\ pending[i].obj \in RegistryObjs)
          => /\ sess'[pending[i].obj].status = "terminated"
             /\ HasEmitNamed(out', "call-ended")
             /\ CleanedUp(pending[i].obj)
     /\ (/\ lastOp'.op = "rejectInboundCall"
         /\ events' # events
         /\ MapGet(calls, lastOp'.key) # NoObj
         /\ sess[MapGet(calls, lastOp'.key)].direction = "inbound")
        => /\ sess'[MapGet(calls, lastOp'.key)].status = "rejected"
           /\ HasEmitNamed(out', "call-ended")
           /\ CleanedUp(MapGet(calls, lastOp'.key))]_vars

\* the step just taken is the return of a failed provider call
ProviderCallFailed ==
  \/ lastOp'.op = "handleBrowserSdpOfferFailed"
  \/ /\ lastOp'.op \in {"answerCallPreAcceptReturned", "answerCallAcceptReturned"}
     /\ HasThrow(out', "provider-error")

\* C17: when the provider call a handler made for a session fails, the
\* session becomes failed, cleanup runs for it and an error event is emitted.
C17_ProviderFailureFails ==
  [][\A i \in 1..MaxPending :
       (/\ ProviderCallFailed
        /\ pending[i].op \in Committing
        /\ pending'[i] # pending[i]
        /\ pending[i].obj \in RegistryObjs)
       => /\ sess'[pending[i].obj].status = "failed"
          /\ HasEmitNamed(out', "call-error")
          /\ CleanedUp(pending[i].obj)]_vars

\* the handlers of end, accept, reject, provider terminate, local offer and
\* local answer events
IdEvents ==
  {"endCall", "acceptInboundCall", "rejectInboundCall", "handleTerminate",
   "handleBrowserSdpOffer", "handleBrowserSdpAnswer"}

\* C18: an event that names a call id the registry does not hold throws
\* nothing to its caller, emits nothing and changes nothing.
C18_UnknownIdDropped ==
  [][(/\ lastOp'.op \in IdEvents
      /\ events' # events
      /\ ~MapHas(calls, lastOp'.key))
     => /\ out' = <<>>
        /\ UNCHANGED <<calls, sess, pending, peers, timers>>]_vars

\* the outbound sessions of the registry the remote-answer fallback looks for
AnswerCandidates ==
  {o \in RegistryObjs : /\ sess[o].direction = "outbound"
                        /\ sess[o].status \in {"ringing", "accepted"}}

\* C19: a remote answer whose id is not a key of the registry, with exactly
\* one outbound session in ringing or accepted, leaves that session stored
\* under the arriving id and under no other key, with the arriving id as its
\* id and connected as its status; with no such session it changes nothing.
C19_AnswerAdoptsArrivingId ==
  [][(/\ lastOp'.op = "handleOutboundSdpAnswer"
      /\ events' # events
      /\ ~MapHas(calls, lastOp'.key))
     => /\ \A o \in AnswerCandidates :
             AnswerCandidates = {o}
             => /\ MapGet(calls', lastOp'.key) = o
                /\ \A i \in 1..Len(calls') :
                     calls'[i].obj = o => calls'[i].key = lastOp'.key
                /\ sess'[o].callId = lastOp'.key
                /\ sess'[o].status = "connected"
        /\ AnswerCandidates = {}
           => /\ out' = <<>>
              /\ UNCHANGED <<calls, sess, pending, peers, timers>>]_vars

\* the outbound sessions of the registry the provider-status fallback looks for
StatusCandidates ==
  {o \in RegistryObjs : /\ sess[o].direction = "outbound"
                        /\ sess[o].status \in {"ringing", "accepted", "awaiting_browser_sdp"}}

\* C20: a provider status whose id is not a key of the registry, met by no
\* fallback candidate or by more than one, changes the status of no session
\* and emits no call-ringing, call-accepted or call-rejected.
C20_AmbiguousStatusDropped ==
  [][(/\ lastOp'.op = "handleOutboundStatus"
      /\ events' # events
      /\ ~MapHas(calls, lastOp'.key)
      /\ Cardinality(StatusCandidates) # 1)
     => /\ \A o \in 1..Len(sess) : sess'[o].status = sess[o].status
        /\ \A i \in 1..Len(out') :
             out'[i].name \notin {"call-ringing", "call-accepted", "call-rejected"}]_vars

\* C21: no provider status event sets a connected session back to ringing or
\* accepted, or an accepted session back to ringing.
C21_StatusNeverBackwards ==
  [][lastOp'.op = "handleOutboundStatus" /\ events' # events =>
       \A o \in 1..Len(sess) :
          /\ sess[o].status = "connected" => sess'[o].status \notin {"ringing", "accepted"}
          /\ sess[o].status = "accepted" => sess'[o].status # "ringing"]_vars

\* C22: initiateOutboundCall is invoked at most once for a session; in
\* particular no local offer starts a provider call for a session while an
\* earlier initiateOutboundCall for the same session is still in flight.
C22_InitiateAtMostOnce ==
  [][\A i, j \in 1..MaxPending :
       (/\ pending[i].op = "browserOffer"
        /\ pending'[i] = pending[i]
        /\ pending[j] = Idle
        /\ pending'[j].op = "browserOffer")
       => pending'[j].obj # pending[i].obj]_vars

\* the connection a session's relay messages go to
TargetOf(s) == IF s.socketId # NoSocket THEN s.socketId ELSE "all"

RelayMessages == {"generate-sdp-offer", "sdp-answer-from-whatsapp"}

\* C23: in relay mode the request for an offer and the relayed remote answer
\* of an outbound session are emitted once, to the connection the session
\* recorded, and to all connections only when it recorded none.
C23_RelayMessagesTargeted ==
  [][mode = "relay" =>
       /\ \A i \in 1..Len(out') :
            out'[i].name \in RelayMessages
            => /\ MapGet(calls', out'[i].id) # NoObj
               /\ sess'[MapGet(calls', out'[i].id)].direction = "outbound"
               /\ out'[i].to = TargetOf(sess'[MapGet(calls', out'[i].id)])
               /\ \A j \in 1..Len(out') : out'[j].name = out'[i].name => j = i
       /\ (lastOp'.op = "startOutboundCall" /\ Len(sess') = Len(sess) + 1)
          => \E i \in 1..Len(out') : /\ out'[i].name = "generate-sdp-offer"
                                      /\ out'[i].id = sess'[Len(sess')].callId
       /\ (/\ lastOp'.op = "handleOutboundSdpAnswer"
           /\ events' # events
           /\ MapGet(calls', lastOp'.key) # NoObj)
          => \E i \in 1..Len(out') : /\ out'[i].name = "sdp-answer-from-whatsapp"
                                      /\ out'[i].id = lastOp'.key]_vars

\* a remote answer has been relayed to the connection that started the call
C23_Witness ==
  /\ mode = "relay"
  /\ lastOp.op = "handleOutboundSdpAnswer"
  /\ \E i \in 1..Len(out) : /\ out[i].name = "sdp-answer-from-whatsapp"
                             /\ out[i].to \in Sockets
                             /\ sess[MapGet(calls, out[i].id)].socketId = out[i].to

\* C24: a grant for a phone at time T sets its ledger entry to T and T + 72h
\* whatever the entry was, leaves the entries of the other phones and the
\* registry as they were and emits one permission-granted event.
C24_GrantOverwritesOneEntry ==
  [][\A p \in DOMAIN permissions :
       (/\ lastOp'.op = "handlePermissionGranted"
        /\ lastOp'.arg = p
        /\ events' # events)
       => /\ permissions'[p] = [grantedAt |-> now, expiresAt |-> now + PERMISSION_TTL]
          /\ \A q \in DOMAIN permissions \ {p} : permissions'[q] = permissions[q]
          /\ UNCHANGED <<calls, sess, timers, peers, pending>>
          /\ Len(out') = 1
          /\ out'[1].kind = "emit"
          /\ out'[1].name = "permission-granted"]_vars

\* a phone has been granted while the other phone's entry, made 72 h
\* earlier, is still in the ledger and the registry holds a call
C24_Witness ==
  /\ lastOp.op = "handlePermissionGranted"
  /\ lastOp.arg = "p1"
  /\ DOMAIN permissions = LedgerPhones
  /\ now > PERMISSION_TTL
  /\ permissions["p1"].grantedAt = now
  /\ permissions["p2"] # NoPerm
  /\ permissions["p2"].grantedAt = 0
  /\ Len(calls) > 0

\* C25: a peer that is still open is held by a session of the registry that
\* has not ended or by a handler that is still running; the peers of ended
\* sessions and of handlers that failed are closed.
C25_NoOpenPeerLeftBehind ==
  \A p \in 1..Len(peers) :
     peers[p] = 0
     => \/ \E o \in RegistryObjs : /\ sess[o].whatsappPeer = p
                                    /\ sess[o].status \notin TerminalStatuses
        \/ \E i \in 1..MaxPending : pending[i].peer = p

\* C26: a terminate, end, accept, reject, local-offer or local-answer event
\* whose call id is not a key of the registry leaves registry, sessions,
\* ledger, timers, peers and suspended handlers as they were, calls the
\* provider for nothing and emits nothing.
C26_UnknownIdChangesNothing ==
  [][(/\ lastOp'.op \in IdEvents
      /\ events' # events
      /\ ~MapHas(calls, lastOp'.key))
     => /\ UNCHANGED <<calls, sess, permissions, timers, peers, pending>>
        /\ \A i \in 1..Len(out') : out'[i].kind \notin {"api", "emit"}]_vars

\* an end request for an id the registry does not hold was refused while the
\* registry held a call
C26_Witness ==
  /\ lastOp.op = "endCall"
  /\ ~MapHas(calls, lastOp.key)
  /\ HasThrow(out, "no-active-call")
  /\ Len(calls) > 0

\* C27: call-connected is emitted at most once for a call.  In relay mode a
\* session becomes connected in the very step that emits call-connected, so
\* no step emits call-connected for a session that is connected already.
C27_ConnectedNoticeOnce ==
  [][mode = "relay" =>
       \A i \in 1..Len(out') :
          (/\ out'[i].name = "call-connected"
           /\ MapGet(calls', out'[i].id) # NoObj)
          => sess[MapGet(calls', out'[i].id)].status # "connected"]_vars

\* C28: an inbound-call webhook whose id is a key of the registry leaves the
\* session stored under that key in place and as it was, and emits no
\* call-incoming.
C28_RepeatedInboundIgnored ==
  [][(/\ lastOp'.op = "handleInboundCall"
      /\ events' # events
      /\ MapHas(calls, lastOp'.key))
     => /\ MapGet(calls', lastOp'.key) = MapGet(calls, lastOp'.key)
        /\ sess'[MapGet(calls, lastOp'.key)] = sess[MapGet(calls, lastOp'.key)]
        /\ ~HasEmitNamed(out', "call-incoming")]_vars

\* C29: when a reject request sets an inbound session of the registry to
\* rejected, a provider rejectCall for that call has been issued by the same
\* handler: in this step, or earlier with the handler suspended on it.
C29_RejectCallsProvider ==
  [][\A o \in RegistryObjs :
       (/\ lastOp'.op = "rejectInboundCall"
        /\ MapGet(calls, lastOp'.key) = o
        /\ sess[o].direction = "inbound"
        /\ sess'[o].status = "rejected")
       => \/ HasApiNamed(out', "rejectCall")
          \/ \E i \in 1..MaxPending : /\ pending[i].op = "rejectInbound"
                                        /\ pending[i].obj = o
                                        /\ pending'[i] = Idle]_vars

\* C30: the removal scheduled by cleanup removes an entry of the registry
\* only when the session stored under the key is in a terminal status.
C30_PurgeOnlyEndedCalls ==
  [][lastOp'.op = "purge" =>
       \A i \in 1..Len(calls) :
          calls[i].key = lastOp'.key
          => sess[calls[i].obj].status \in TerminalStatuses]_vars

\* C31: answerCall(pre_accept) is issued at most once for an inbound session;
\* in particular no accept or local answer sends answerCall(pre_accept) for a
\* session while a handler that has sent it for the same session is still
\* waiting for the provider.
C31_PreAcceptAtMostOnce ==
  [][\A i, j \in 1..MaxPending :
       (/\ pending[i].op \in {"acceptInbound", "browserAnswer"}
        /\ pending[i].stage \in {"pre_accept", "accept"}
        /\ pending'[i] = pending[i]
        /\ pending[j].stage # "pre_accept"
        /\ pending'[j].stage = "pre_accept")
       => pending'[j].obj # pending[i].obj]_vars

====
